---- MODULE Spec2Model ----
(***************************************************************************)
(* phi-adic developments of univariate polynomials                         *)
(* (DevelopingValuation, src/developing_valuation.py).                     *)
(*                                                                         *)
(* A polynomial is the dense list of its coefficients, lowest degree       *)
(* first, without trailing zeros; the zero polynomial is << >> and has     *)
(* degree -1.  The base ring is Z/3.                                       *)
(***************************************************************************)
EXTENDS Integers, Sequences, FiniteSets

\* ---------------------------------------------------------------- bounds
\* Largest degree of a polynomial handed to an operation.
MaxDegF == 2
\* Largest degree of the key polynomial.
MaxDegPhi == 2
\* Largest finite element of the value group.
MaxVal == 1

\* phi    the key polynomial of the valuation
\* cache  the cache of __quo_rem_monomial: degree -> [q, r]
\* gen    one iterator returned by coefficients(): the polynomial it was
\*        made for (f), what it still holds (pending in the linear case,
\*        run in the general case) and what it has yielded (out)
\* maxDeg the largest degree of a polynomial coefficients() was called with
\* ret    the operation called last, and what it returned or raised
VARIABLES phi, cache, gen, maxDeg, ret

vars == <<phi, cache, gen, maxDeg, ret>>

\* ----------------------------------------------------- polynomial arithmetic
\* The base ring, Z/3: the smallest ring in which -a and a differ.
BaseRing == {0, 1, 2}

Modulus == Cardinality(BaseRing)

SetMax(S) == CHOOSE m \in S : \A n \in S : n <= m

SetMin(S) == CHOOSE m \in S : \A n \in S : m <= n

\* Drop the trailing zeros of a dense coefficient list.
Norm(s) == SubSeq(s, 1, SetMax({0} \cup {i \in 1 .. Len(s) : s[i] # 0}))

\* f.degree(): -1 for the zero polynomial.
Deg(p) == Len(p) - 1

\* f[i]: the coefficient of x^i, 0 beyond the degree.
Coef(p, i) == IF 0 <= i /\ i < Len(p) THEN p[i + 1] ELSE 0

IsZero(p) == p = << >>

PAdd(p, q) ==
    Norm([i \in 1 .. SetMax({Len(p), Len(q)}) |->
            (Coef(p, i - 1) + Coef(q, i - 1)) % Modulus])

\* c * p for a base-ring element c.
PScale(c, p) == Norm([i \in 1 .. Len(p) |-> (c * p[i]) % Modulus])

PSub(p, q) == PAdd(p, PScale(Modulus - 1, q))

RECURSIVE ConvSum(_, _, _, _)
\* sum over j = 0 .. i of p[j] * q[k - j]
ConvSum(p, q, k, i) ==
    IF i < 0 THEN 0
    ELSE (Coef(p, i) * Coef(q, k - i) + ConvSum(p, q, k, i - 1)) % Modulus

PMul(p, q) ==
    IF IsZero(p) \/ IsZero(q) THEN << >>
    ELSE Norm([k \in 1 .. (Len(p) + Len(q) - 1) |-> ConvSum(p, q, k - 1, k - 1)])

\* domain.one() << degree: the monomial x^degree.
Monomial(degree) == [i \in 1 .. (degree + 1) |-> IF i = degree + 1 THEN 1 ELSE 0]

\* The image of a base-ring element in the polynomial ring.
ConstPoly(c) == IF c = 0 THEN << >> ELSE <<c>>

RECURSIVE PolyQuoRem(_, _)
\* f.quo_rem(g) for a monic g: division with remainder, one leading term
\* at a time.
PolyQuoRem(f, g) ==
    IF Deg(f) < Deg(g) THEN [q |-> << >>, r |-> f]
    ELSE LET t == PScale(f[Len(f)], Monomial(Deg(f) - Deg(g)))
             rest == PolyQuoRem(PSub(f, PMul(t, g)), g)
         IN  [q |-> PAdd(t, rest.q), r |-> rest.r]

RECURSIVE PPow(_, _)
PPow(p, n) == IF n = 0 THEN <<1>> ELSE PMul(p, PPow(p, n - 1))

RECURSIVE PhiSum(_, _)
\* sum_i cs[i] * g^(i-1): the polynomial a development cs stands for.
PhiSum(cs, g) ==
    IF cs = << >> THEN << >>
    ELSE PAdd(Head(cs), PMul(g, PhiSum(Tail(cs), g)))

\* All polynomials of degree <= n.
RECURSIVE DenseLists(_)
DenseLists(n) ==
    IF n = 0 THEN {<< >>}
    ELSE LET S == DenseLists(n - 1)
         IN  S \cup {Append(s, c) : s \in {t \in S : Len(t) = n - 1}, c \in BaseRing}

Polys == {p \in DenseLists(MaxDegF + 1) : p = Norm(p)}

\* Monic polynomials of degree 1 .. MaxDegPhi.
KeyPolys ==
    {Append(s, 1) : s \in {t \in DenseLists(MaxDegPhi) : Len(t) >= 1}}

\* ------------------------------------------------------------ the valuation
\* What an operation can be called with: an element of the domain, an
\* element of the base ring (coercible, other parent), or an element of
\* an unrelated parent that does not coerce.
Inputs ==
    [parent : {"domain"}, val : Polys]
      \cup [parent : {"base"}, val : {ConstPoly(c) : c \in BaseRing}]
      \cup [parent : {"other"}, val : {<<0, 1>>}]

\* __quo_rem_monomial without the division: (0, x^degree).
QuoRemMonomialNoDivision(g, degree) == [q |-> << >>, r |-> Monomial(degree)]

\* __quo_rem_monomial(degree), the body under @cached_method.
QuoRemMonomial(g, degree) == PolyQuoRem(Monomial(degree), g)

\* The values of QuoRemMonomial, computed once.
MonomialTable ==
    [g \in KeyPolys |-> [d \in 0 .. MaxDegF |-> QuoRemMonomial(g, d)]]

\* A cache that answers every lookup with its first stored result.
CacheFillIgnoringKey(c, g, n) ==
    [d \in (DOMAIN c) \cup (0 .. n) |->
        IF DOMAIN c # {} THEN c[SetMin(DOMAIN c)] ELSE MonomialTable[g][d]]

\* A cache that keeps only the entries of the last call.
CacheFillEvicting(c, g, n) ==
    [d \in 0 .. n |-> IF d \in DOMAIN c THEN c[d] ELSE MonomialTable[g][d]]

\* The cached_method wrapper, for the calls of one __quo_rem: a stored
\* result is returned as it is, a missing one is computed and stored.
CacheFill(c, g, n) ==
    [d \in (DOMAIN c) \cup (0 .. n) |->
        IF d \in DOMAIN c THEN c[d] ELSE MonomialTable[g][d]]

RECURSIVE WeightedSum(_, _, _, _)
\* sum([ f[i]*qr[i].part for i in 0 .. n ])
WeightedSum(f, qr, part, n) ==
    IF n < 0 THEN << >>
    ELSE PAdd(WeightedSum(f, qr, part, n - 1), PScale(Coef(f, n), qr[n][part]))

\* __quo_rem with range(f.degree()) for range(f.degree()+1).
QuoRemDroppingLeadingTerm(f, g, c) ==
    LET qr == CacheFill(c, g, Deg(f) - 1)
    IN  [q |-> WeightedSum(f, qr, "q", Deg(f) - 1),
         r |-> WeightedSum(f, qr, "r", Deg(f) - 1),
         cache |-> qr]

\* __quo_rem(f): quotient and remainder of f by phi, and the cache after.
QuoRem(f, g, c) ==
    LET qr == CacheFill(c, g, Deg(f))
    IN  [q |-> WeightedSum(f, qr, "q", Deg(f)),
         r |-> WeightedSum(f, qr, "r", Deg(f)),
         cache |-> qr]

RECURSIVE Horner(_, _, _)
\* sum over j >= i of f[j] * g^(j-i), by Horner's rule; f(g) for i = 0.
Horner(f, g, i) ==
    IF i < 0 THEN << >>
    ELSE IF i = Deg(f) THEN ConstPoly(Coef(f, i))
    ELSE PAdd(PMul(Horner(f, g, i + 1), g), ConstPoly(Coef(f, i)))

\* The substitution with the sign of phi[0] wrong: f(x + phi[0]).
LinearCoefficientsPlus(f, g) ==
    Horner(f, PAdd(<<0, 1>>, ConstPoly(Coef(g, 0))), IF IsZero(f) THEN -1 ELSE 0)

\* f(x - phi[0]).coefficients(sparse=False)
LinearCoefficients(f, g) ==
    Horner(f, PSub(<<0, 1>>, ConstPoly(Coef(g, 0))), IF IsZero(f) THEN -1 ELSE 0)

\* list(coefficients(f)) for deg(phi) >= 2: the generator __coefficients
\* run to its end, and the cache after.
RECURSIVE GeneralExpansion(_, _, _)
GeneralExpansion(f, g, c) ==
    IF Deg(f) >= 0
    THEN LET qr == QuoRem(f, g, c)
             rest == GeneralExpansion(qr.q, g, qr.cache)
         IN  [coeffs |-> <<qr.r>> \o rest.coeffs, cache |-> rest.cache]
    ELSE [coeffs |-> << >>, cache |-> c]

\* list(coefficients(f)) for an f of the domain, and the cache after.
Expansion(f, g, c) ==
    IF Deg(g) = 1
    THEN LET L == LinearCoefficients(f, g)
         IN  [coeffs |-> [i \in 1 .. Len(L) |-> ConstPoly(L[i])], cache |-> c]
    ELSE GeneralExpansion(f, g, c)

\* ------------------------------------------------------------- value group
infinity == MaxVal + 1

FiniteValues == 0 .. MaxVal

RECURSIVE ValuationSeqs(_)
\* The sequences valuations(f) may return for the development cs: one
\* entry per coefficient, infinity exactly at the zero coefficients.
ValuationSeqs(cs) ==
    IF cs = << >> THEN {<< >>}
    ELSE {<<v>> \o t : v \in (IF IsZero(Head(cs)) THEN {infinity} ELSE FiniteValues),
                       t \in ValuationSeqs(Tail(cs))}

\* valuations(f), abstract in DevelopingValuation: what an implementation
\* may return, with the cache its use of coefficients(f) leaves.
valuations(f, g, c) ==
    LET e == Expansion(f, g, c)
    IN  {[coeffs |-> e.coeffs, vals |-> vs, cache |-> e.cache] :
            vs \in ValuationSeqs(e.coeffs)}

\* min(...) of a non-empty sequence of values.
SeqMin(vs) == SetMin({vs[i] : i \in 1 .. Len(vs)})

\* The first such index, [0] for [-1].
FirstIndexOf(vs, v) == SetMin({i \in 0 .. (Len(vs) - 1) : vs[i + 1] = v})

\* The last such index, counted from 1.
LastIndexFromOne(vs, v) == SetMax({i \in 1 .. Len(vs) : vs[i] = v})

\* [i for i,w in enumerate(vs) if w == v][-1]
LastIndexOf(vs, v) == SetMax({i \in 0 .. (Len(vs) - 1) : vs[i + 1] = v})

\* enumerate(vs)
Enumerate(vs) == [i \in 1 .. Len(vs) |-> <<i - 1, vs[i]>>]

RECURSIVE SortedSeq(_)
SortedSeq(S) ==
    IF S = {} THEN << >>
    ELSE LET m == SetMin(S) IN <<m>> \o SortedSeq(S \ {m})

\* The lower convex hull with infinity taken as one more height.
NewtonPolygonOfAllPoints(points) ==
    LET all == 1 .. Len(points)
        X(i) == points[i][1]
        Y(i) == points[i][2]
        IsVertex(i) ==
            /\ \A j \in all : j # i => X(j) # X(i) \/ Y(j) > Y(i)
            /\ \A j, k \in all :
                 (X(j) < X(i) /\ X(i) < X(k)) =>
                    (Y(i) - Y(j)) * (X(k) - X(i)) < (Y(k) - Y(i)) * (X(i) - X(j))
        hull == SortedSeq({i \in all : IsVertex(i)})
    IN  [n \in 1 .. Len(hull) |-> points[hull[n]]]

\* NewtonPolygon(points).vertices(): the vertices of the lower convex
\* hull of the finite points, by increasing index.
NewtonPolygon(points) ==
    LET fin == {i \in 1 .. Len(points) : points[i][2] # infinity}
        X(i) == points[i][1]
        Y(i) == points[i][2]
        IsVertex(i) ==
            /\ \A j \in fin : j # i => X(j) # X(i) \/ Y(j) > Y(i)
            /\ \A j, k \in fin :
                 (X(j) < X(i) /\ X(i) < X(k)) =>
                    (Y(i) - Y(j)) * (X(k) - X(i)) < (Y(k) - Y(i)) * (X(i) - X(j))
        hull == SortedSeq({i \in fin : IsVertex(i)})
    IN  [n \in 1 .. Len(hull) |-> points[hull[n]]]

\* ---------------------------------------------------------------- the state
NoGen == [st |-> "none", f |-> << >>, pending |-> << >>, run |-> << >>, out |-> << >>]

\* What a call returns (status "ok") or raises, with the cache it leaves
\* and the degree of the polynomial it had developed (-1: none).
Outcome(status, cs, vs, evals, out, vert, c, deg) ==
    [status |-> status, coeffs |-> cs, vals |-> vs, evals |-> evals,
     out |-> out, vertices |-> vert, cache |-> c, deg |-> deg]

Raise(error, c) == Outcome(error, << >>, << >>, 0, -1, << >>, c, -1)

NoRet == [op |-> "none", arg |-> [parent |-> "domain", val |-> << >>],
          res |-> Raise("none", << >>)]

Init ==
    /\ phi \in KeyPolys
    /\ cache = << >>
    /\ gen = NoGen
    /\ maxDeg = -1
    /\ ret = NoRet

\* ---------------------------------------------------- the lazy development
\* coefficients(f): the call itself, which returns the iterator.
coefficients(x) ==
    /\ gen.st = "none"
    /\ IF x.parent # "domain"
       THEN UNCHANGED <<gen, maxDeg>>
       ELSE /\ maxDeg' = SetMax({maxDeg, Deg(x.val)})
            /\ gen' =
                   IF Deg(phi) = 1
                   THEN [st |-> "active", f |-> x.val,
                         pending |-> LinearCoefficients(x.val, phi),
                         run |-> << >>, out |-> << >>]
                   ELSE [st |-> "active", f |-> x.val, pending |-> << >>,
                         run |-> x.val, out |-> << >>]
    /\ UNCHANGED <<phi, cache, ret>>

\* next() on the imap iterator of the linear case.
NextLinear ==
    /\ gen.st = "active"
    /\ Deg(phi) = 1
    /\ IF gen.pending = << >>
       THEN gen' = [gen EXCEPT !.st = "done"]
       ELSE gen' = [gen EXCEPT !.pending = Tail(@),
                               !.out = Append(@, ConstPoly(Head(gen.pending)))]
    /\ UNCHANGED <<phi, cache, maxDeg, ret>>

\* next() on the generator __coefficients(f): one turn of its loop.
NextGeneral ==
    /\ gen.st = "active"
    /\ Deg(phi) # 1
    /\ IF Deg(gen.run) >= 0
       THEN LET qr == QuoRem(gen.run, phi, cache)
            IN  /\ gen' = [gen EXCEPT !.run = qr.q, !.out = Append(@, qr.r)]
                /\ cache' = qr.cache
       ELSE /\ gen' = [gen EXCEPT !.st = "done"]
            /\ UNCHANGED cache
    /\ UNCHANGED <<phi, maxDeg, ret>>

\* The caller lets go of the iterator, exhausted or not.
Drop ==
    /\ gen.st # "none"
    /\ gen' = NoGen
    /\ UNCHANGED <<phi, cache, maxDeg, ret>>

\* One turn of the loop of any other iterator of this valuation, in
\* between: of its running polynomial, of degree n, __quo_rem touches the
\* valuation only through the lookups of x^0 .. x^n.
OtherQuoRem(n) ==
    /\ Deg(phi) # 1
    /\ cache' = CacheFill(cache, phi, n)
    /\ maxDeg' = SetMax({maxDeg, n})
    /\ UNCHANGED <<phi, gen, ret>>

Next ==
    \/ \E x \in Inputs : coefficients(x)
    \/ NextLinear
    \/ NextGeneral
    \/ Drop
    \/ \E n \in 0 .. MaxDegF : OtherQuoRem(n)

Spec == Init /\ [][Next]_vars

\* ------------------------------------------------- the operations, called
\* list(coefficients(f))
ListCoefficients(x, g, c) ==
    IF x.parent # "domain" THEN {Raise("ValueError", c)}
    ELSE LET e == Expansion(x.val, g, c)
         IN  {Outcome("ok", e.coeffs, << >>, 0, -1, << >>, e.cache, Deg(x.val))}

\* max for min.
MaxValuation(vs) == SetMax({vs[i] : i \in 1 .. Len(vs)})

\* min(self.valuations(f))
MinValuation(vs) == SeqMin(vs)

\* _call_ with the parent test replaced by a coercion.
callCoercing(x, g, c) ==
    IF x.parent = "other" THEN {Raise("TypeError", c)}
    ELSE IF IsZero(x.val)
    THEN {Outcome("ok", << >>, << >>, 0, infinity, << >>, c, -1)}
    ELSE {Outcome("ok", e.coeffs, e.vals, 1, MinValuation(e.vals), << >>,
                  e.cache, Deg(x.val)) : e \in valuations(x.val, g, c)}

\* _call_(f)
call(x, g, c) ==
    IF x.parent # "domain" THEN {Raise("ValueError", c)}
    ELSE IF IsZero(x.val)
    THEN {Outcome("ok", << >>, << >>, 0, infinity, << >>, c, -1)}
    ELSE {Outcome("ok", e.coeffs, e.vals, 1, MinValuation(e.vals), << >>,
                  e.cache, Deg(x.val)) : e \in valuations(x.val, g, c)}

\* self.domain().coerce(f): the element of the domain f coerces to.
Coercible(x) == x.parent \in {"domain", "base"}

\* effective_degree(f): v = self(f), then valuations(f) once more.
effective_degree(x, g, c) ==
    IF ~Coercible(x) THEN {Raise("TypeError", c)}
    ELSE IF IsZero(x.val) THEN {Raise("ValueError", c)}
    ELSE {Outcome("ok", e.coeffs, e.vals, 2,
                  LastIndexOf(e.vals, MinValuation(e.vals)), << >>,
                  e.cache, Deg(x.val)) : e \in valuations(x.val, g, c)}

\* newton_polygon(f)
newton_polygon(x, g, c) ==
    IF x.parent # "domain" THEN {Raise("ValueError", c)}
    ELSE {Outcome("ok", e.coeffs, e.vals, 1, -1,
                  NewtonPolygon(Enumerate(e.vals)), e.cache, Deg(x.val)) :
             e \in valuations(x.val, g, c)}

Operation(op, x, g, c) ==
    CASE op = "coefficients" -> ListCoefficients(x, g, c)
      [] op = "call" -> call(x, g, c)
      [] op = "effective_degree" -> effective_degree(x, g, c)
      [] op = "newton_polygon" -> newton_polygon(x, g, c)

Operations == {"coefficients", "call", "effective_degree", "newton_polygon"}

\* One operation, from the call to the point where it returns or raises.
Call(op, x) ==
    /\ ret.op = "none"
    /\ \E o \in Operation(op, x, phi, cache) :
          /\ ret' = [op |-> op, arg |-> x, res |-> o]
          /\ cache' = o.cache
          /\ maxDeg' = SetMax({maxDeg, o.deg})
    /\ UNCHANGED <<phi, gen>>

\* The caller takes the result.
Return ==
    /\ ret.op # "none"
    /\ ret' = NoRet
    /\ UNCHANGED <<phi, cache, gen, maxDeg>>

CallCoefficients(x) == Call("coefficients", x)

CallEvaluation(x) == Call("call", x)

CallEffectiveDegree(x) == Call("effective_degree", x)

CallNewtonPolygon(x) == Call("newton_polygon", x)

NextEval ==
    \/ \E x \in Inputs : CallCoefficients(x)
    \/ \E x \in Inputs : CallEvaluation(x)
    \/ \E x \in Inputs : CallEffectiveDegree(x)
    \/ \E x \in Inputs : CallNewtonPolygon(x)
    \/ Return

EvalSpec == Init /\ [][NextEval]_vars

\* ------------------------------------------------------------------ claims
\* The development of f computed alone, on a valuation with an empty cache.
FreshExpansion(f) == Expansion(f, phi, << >>).coeffs

IsPrefix(s, t) == Len(s) <= Len(t) /\ s = SubSeq(t, 1, Len(s))

\* C1 Reconstruction: the coefficients f_0 .. f_n an exhausted iterator of
\* coefficients(f) has yielded satisfy sum_i f_i * phi^i = f, on the linear
\* and on the general path, whatever the cache held while it ran.
C1_Reconstruction == gen.st = "done" => PhiSum(gen.out, phi) = gen.f

\* An exhausted development by a quadratic phi with two coefficients.
C1_Witness ==
    /\ gen.st = "done"
    /\ Deg(phi) = 2
    /\ Len(gen.out) = 2
    /\ gen.out[1] # << >>

\* C2 Degree bound: every coefficient yielded has degree < deg(phi), the
\* zero coefficient counting as degree -1.
C2_DegreeBound ==
    \A i \in 1 .. Len(gen.out) : Deg(gen.out[i]) < Deg(phi)

\* A remainder of degree deg(phi) - 1 yielded on the general path.
C2_Witness ==
    /\ Deg(phi) = 2
    /\ Deg(gen.f) = 2
    /\ Len(gen.out) >= 1
    /\ Deg(gen.out[1]) = 1

\* C7 Repeatability and independence: whatever the other iterators of the
\* valuation did in between, an iterator has yielded so far the first
\* elements of the development computed alone on an empty cache, and all
\* of them once it is exhausted.
C7_Independent ==
    gen.st # "none" =>
        /\ IsPrefix(gen.out, FreshExpansion(gen.f))
        /\ gen.st = "done" => gen.out = FreshExpansion(gen.f)

\* An exhausted iterator of a linear f, with x^2 in the cache: an entry
\* only another iterator can have asked for.
C7_Witness ==
    /\ gen.st = "done"
    /\ Deg(phi) = 2
    /\ Deg(gen.f) = 1
    /\ Len(gen.out) = 1
    /\ DOMAIN cache = 0 .. 2

CacheEntryOk(d) ==
    /\ PAdd(PMul(cache[d].q, phi), cache[d].r) = Monomial(d)
    /\ Deg(cache[d].r) < Deg(phi)

\* C9 Cache consistency: every entry d -> (q, r) has x^d = q*phi + r and
\* deg(r) < deg(phi); the keys lie in 0 .. the largest degree developed;
\* an entry once written stays as it is; phi never changes.
C9_CacheConsistent ==
    /\ [](\A d \in DOMAIN cache : d \in 0 .. maxDeg /\ CacheEntryOk(d))
    /\ [][/\ \A d \in DOMAIN cache : d \in DOMAIN cache' /\ cache'[d] = cache[d]
          /\ phi' = phi]_vars

\* A cache holding x^2 divided by a quadratic phi.
C9_Witness ==
    /\ Deg(phi) = 2
    /\ 2 \in DOMAIN cache
    /\ cache[2].q = <<1>>
    /\ cache[2].r # << >>

\* C10 Termination and length, deg(phi) >= 2: after k coefficients the
\* running polynomial has degree deg(f) - k*deg(phi), or is zero when that
\* is negative; so the loop yields nothing for f = 0 and exactly
\* floor(deg(f)/deg(phi)) + 1 coefficients otherwise, the last non-zero.
C10_Length ==
    (gen.st # "none" /\ Deg(phi) >= 2) =>
        LET k == Len(gen.out)
            n == Deg(gen.f)
            d == Deg(phi)
        IN  /\ n - k * d >= 0 => Deg(gen.run) = n - k * d
            /\ n - k * d < 0 => IsZero(gen.run)
            /\ n < 0 => k = 0
            /\ n >= 0 => k <= (n \div d) + 1
            /\ (gen.st = "done" /\ n >= 0) =>
                   k = (n \div d) + 1 /\ gen.out[k] # << >>

\* An exhausted development of two coefficients, the first of them zero.
C10_Witness ==
    /\ gen.st = "done"
    /\ Deg(phi) = 2
    /\ Deg(gen.f) = 2
    /\ Len(gen.out) = 2
    /\ gen.out[1] = << >>

IsMinOf(v, vs) ==
    /\ \E i \in 1 .. Len(vs) : vs[i] = v
    /\ \A i \in 1 .. Len(vs) : v <= vs[i]

\* C3 Evaluation consistency: for f of the domain, _call_ returns infinity
\* for the zero polynomial without asking for valuations(f), and otherwise
\* the minimum of valuations(f), which is finite when valuations(f) is
\* infinite exactly at the zero coefficients.
C3_Evaluation ==
    (ret.op = "call" /\ ret.arg.parent = "domain") =>
        /\ ret.res.status = "ok"
        /\ IsZero(ret.arg.val) => ret.res.out = infinity /\ ret.res.evals = 0
        /\ ~IsZero(ret.arg.val) =>
              /\ ret.res.evals = 1
              /\ Len(ret.res.vals) = Len(ret.res.coeffs)
              /\ IsMinOf(ret.res.out, ret.res.vals)
              /\ ret.res.out \in FiniteValues

\* A minimum that is not the first of three valuations, one of them infinite.
C3_Witness ==
    /\ ret.op = "call"
    /\ ret.res.status = "ok"
    /\ Len(ret.res.vals) = 3
    /\ ret.res.vals[1] = 1
    /\ ret.res.vals[2] = infinity
    /\ ret.res.out = 0

\* C4 Effective-degree tie-break: for a non-zero f, effective_degree(f) is
\* the largest index whose valuation equals the minimum of valuations(f);
\* for the zero polynomial it raises ValueError.
C4_EffectiveDegree ==
    (ret.op = "effective_degree" /\ Coercible(ret.arg)) =>
        IF IsZero(ret.arg.val)
        THEN ret.res.status = "ValueError"
        ELSE /\ ret.res.status = "ok"
             /\ ret.res.out \in 0 .. (Len(ret.res.vals) - 1)
             /\ IsMinOf(ret.res.vals[ret.res.out + 1], ret.res.vals)
             /\ \A j \in (ret.res.out + 2) .. Len(ret.res.vals) :
                    ~IsMinOf(ret.res.vals[j], ret.res.vals)

\* A tie between the first and the last of three terms, decided for the last.
C4_Witness ==
    /\ ret.op = "effective_degree"
    /\ ret.res.status = "ok"
    /\ ret.res.vals = <<0, 1, 0>>
    /\ ret.res.out = 2

StrictOperations == {"coefficients", "call", "newton_polygon"}

Untouched(r) ==
    /\ r.coeffs = << >>
    /\ r.vals = << >>
    /\ r.evals = 0

\* C6 as stated: each of the four operations, called with an f whose
\* parent is not the domain, raises ValueError with nothing produced.
C6_Original ==
    (ret.op \in Operations /\ ret.arg.parent # "domain") =>
        ret.res.status = "ValueError" /\ Untouched(ret.res)

\* C6 Domain mismatch, amended: coefficients, _call_ and newton_polygon
\* raise ValueError on an f whose parent is not the domain, with nothing
\* developed or valued and phi and the cache as they were; effective_degree
\* coerces f first, so it raises TypeError, and changes nothing, only when
\* f does not coerce, and treats a base-ring element as the constant
\* polynomial: ValueError for zero, an index otherwise.
C6_DomainMismatch ==
    /\ []((ret.op \in StrictOperations /\ ret.arg.parent # "domain") =>
              ret.res.status = "ValueError" /\ Untouched(ret.res))
    /\ []((ret.op = "effective_degree" /\ ret.arg.parent # "domain") =>
              /\ ~Coercible(ret.arg) =>
                     ret.res.status = "TypeError" /\ Untouched(ret.res)
              /\ (Coercible(ret.arg) /\ IsZero(ret.arg.val)) =>
                     ret.res.status = "ValueError" /\ Untouched(ret.res)
              /\ (Coercible(ret.arg) /\ ~IsZero(ret.arg.val)) =>
                     ret.res.status = "ok")
    /\ [][(ret'.op \in Operations /\ ret'.res.status # "ok") =>
              cache' = cache /\ phi' = phi /\ maxDeg' = maxDeg]_vars

\* newton_polygon refusing a base-ring element, the cache already filled.
C6_Witness ==
    /\ ret.op = "newton_polygon"
    /\ ret.arg.parent = "base"
    /\ ret.res.status = "ValueError"
    /\ DOMAIN cache = 0 .. 2

\* C8 Effective degree of constants: for a non-zero element c of the base
\* ring, effective_degree(c) is 0 and the development of c has exactly one
\* coefficient, for phi of any degree.
C8_Constants ==
    (ret.op = "effective_degree" /\ ret.arg.parent = "base"
        /\ ~IsZero(ret.arg.val)) =>
        /\ ret.res.status = "ok"
        /\ ret.res.out = 0
        /\ Len(ret.res.coeffs) = 1

\* effective_degree of the constant 2 under a quadratic phi.
C8_Witness ==
    /\ ret.op = "effective_degree"
    /\ ret.arg = [parent |-> "base", val |-> <<2>>]
    /\ Deg(phi) = 2
    /\ ret.res.out = 0

====
